---- MODULE Spec2Model ----
(***************************************************************************)
(* scripts/generate_filelist.py: the filelist generator.                   *)
(*                                                                         *)
(* A string is a sequence of one-character strings, so that suffix tests   *)
(* and the code-point order of Python's sorted() are computed, not         *)
(* assumed.  A path is a sequence of components (strings), absolute and    *)
(* normalised, the root being <<>>.  The file system is the set of         *)
(* directories, the set of project files, and the three output files of    *)
(* the job directory.                                                      *)
(***************************************************************************)
EXTENDS Integers, Sequences, FiniteSets, TLC

VARIABLES
    argv,          \* sys.argv: <<script, arg1, arg2, ...>>, each a path
    dirs,          \* directories that exist
    files,         \* project files that exist (never changed by the program)
    unreadable,    \* directories whose listing is denied (scandir fails)
    out,           \* the three output files: [filelist, compile_options, metadata]
    pc,            \* the position of the running process
    exit_status,   \* Nothing while running, else Some(exit status)
    src_files,     \* generate_filelist's locals
    tb_files,
    include_files,
    include_dirs,
    run,           \* which invocation this is (1, 2, ...)
    written,       \* history: the outputs this run has written completely
    faults,        \* history: the I/O failures this run has met
    began          \* history: the file system when this run began

vars == <<argv, dirs, files, unreadable, out, pc, exit_status, src_files,
          tb_files, include_files, include_dirs, run, written, faults, began>>

(***************************************************************************)
(* Bounds of the model.                                                    *)
(***************************************************************************)
MaxFiles == 1        \* files of a project other than the two named ones
MaxRuns == 2         \* successive invocations with the same arguments
MaxUnreadable == 1   \* directories that deny listing (SpecIO only)

(***************************************************************************)
(* Strings.                                                                *)
(***************************************************************************)
\* The characters in use, in code-point order ('+' 43, '.' 46, '/' 47,
\* '_' 95, 'a'..'z' 97..122): Python compares str by code point.
CharOrder ==
    <<"+", ".", "/", "_", "a", "b", "c", "d", "e", "f", "g", "h", "i", "j",
      "k", "l", "m", "n", "o", "p", "q", "r", "s", "t", "u", "v", "w", "x",
      "y", "z">>

Ord(c) == CHOOSE i \in 1..Len(CharOrder) : CharOrder[i] = c

\* a < b for str.
RECURSIVE StrLess(_, _)
StrLess(a, b) ==
    IF b = <<>> THEN FALSE
    ELSE IF a = <<>> THEN TRUE
    ELSE IF Head(a) = Head(b) THEN StrLess(Tail(a), Tail(b))
    ELSE Ord(Head(a)) < Ord(Head(b))

\* str.endswith
endswith(s, suffix) ==
    /\ Len(suffix) <= Len(s)
    /\ SubSeq(s, Len(s) - Len(suffix) + 1, Len(s)) = suffix

\* A faulty variant of sorted: the sequence is left in the order it came in.
unsorted(s) == s

\* sorted(): a stable ascending sort (insertion into the sorted prefix).
RECURSIVE InsertSorted(_, _)
InsertSorted(s, x) ==
    IF s = <<>> THEN <<x>>
    ELSE IF StrLess(x, Head(s)) THEN <<x>> \o s
    ELSE <<Head(s)>> \o InsertSorted(Tail(s), x)

RECURSIVE sorted(_)
sorted(s) ==
    IF s = <<>> THEN <<>>
    ELSE InsertSorted(sorted(SubSeq(s, 1, Len(s) - 1)), s[Len(s)])

Range(s) == {s[i] : i \in 1..Len(s)}

\* All enumerations of a finite set: the orders a set can be iterated in.
RECURSIVE Perms(_)
Perms(S) ==
    IF S = {} THEN {<<>>}
    ELSE UNION {{<<x>> \o p : p \in Perms(S \ {x})} : x \in S}

(***************************************************************************)
(* Paths.                                                                  *)
(***************************************************************************)
n_p == <<"p">>
n_src == <<"s", "r", "c">>
n_tb == <<"t", "b">>
n_include == <<"i", "n", "c", "l", "u", "d", "e">>
n_job == <<"j">>
n_x == <<"x">>
n_sub == <<"u">>
n_a_v == <<"a", ".", "v">>
n_b_sv == <<"b", ".", "s", "v">>
n_c_v == <<"c", ".", "v">>
n_pkg_svh == <<"p", "k", "g", ".", "s", "v", "h">>
n_d_vh == <<"d", ".", "v", "h">>
n_e_svh == <<"e", ".", "s", "v", "h">>
n_top_tb_sv == <<"t", "o", "p", "_", "t", "b", ".", "s", "v">>
n_t_vh == <<"t", ".", "v", "h">>
n_defs_vh == <<"d", "e", "f", "s", ".", "v", "h">>
n_m_v == <<"m", ".", "v">>
n_h_vh == <<"h", ".", "v", "h">>
n_filelist == <<"f", "i", "l", "e", "l", "i", "s", "t", ".", "f">>
n_compile_options ==
    <<"c", "o", "m", "p", "i", "l", "e", "_", "o", "p", "t", "i", "o", "n", "s",
      ".", "t", "x", "t">>
n_metadata ==
    <<"p", "r", "o", "j", "e", "c", "t", "_", "m", "e", "t", "a", "d", "a", "t",
      "a", ".", "j", "s", "o", "n">>

Parent(path) == SubSeq(path, 1, Len(path) - 1)
Basename(path) == path[Len(path)]
IsPrefix(a, b) == Len(a) <= Len(b) /\ SubSeq(b, 1, Len(a)) = a
Ancestors(path) == {SubSeq(path, 1, k) : k \in 0..Len(path)}

\* os.path.join(a, name)
join(a, name) == Append(a, name)

\* "/".join(components)
RECURSIVE Joined(_)
Joined(comps) ==
    IF comps = <<>> THEN <<>>
    ELSE IF Len(comps) = 1 THEN comps[1]
    ELSE comps[1] \o <<"/">> \o Joined(Tail(comps))

CommonLen(a, b) ==
    CHOOSE k \in 0..Len(a) :
        /\ k <= Len(b)
        /\ SubSeq(a, 1, k) = SubSeq(b, 1, k)
        /\ \A m \in (k + 1)..Len(a) :
               m > Len(b) \/ SubSeq(a, 1, m) # SubSeq(b, 1, m)

\* A faulty variant of relpath: the path is taken relative to the project directory
\* (its first component), not to start.
relpath_in_project(path, start) ==
    IF Len(path) <= 1 THEN <<".">> ELSE Joined(SubSeq(path, 2, Len(path)))

\* os.path.relpath(path, start): ".." for every component of start beyond
\* the common prefix, then the rest of path; "." when nothing is left.
relpath(path, start) ==
    LET i == CommonLen(path, start)
        rel_list == [k \in 1..(Len(start) - i) |-> <<".", ".">>]
                        \o SubSeq(path, i + 1, Len(path))
    IN  IF rel_list = <<>> THEN <<".">> ELSE Joined(rel_list)

(***************************************************************************)
(* The file system.                                                        *)
(***************************************************************************)
Root == <<>>
Script == <<<<"g">>>>
Project == <<n_p>>
SrcDir == <<n_p, n_src>>
TbDir == <<n_p, n_tb>>
IncludeDir == <<n_p, n_include>>
TopDirs == {SrcDir, TbDir, IncludeDir}

\* The job directory is the project itself, a directory beside it, or the
\* project's src directory.
JobPlacements == {Project, <<n_job>>, SrcDir}

\* The project of the spec's testable properties.
ExampleProject ==
    {join(SrcDir, n_a_v), join(SrcDir, n_b_sv), join(SrcDir, n_pkg_svh),
     join(TbDir, n_top_tb_sv), join(IncludeDir, n_defs_vh)}

\* A project with nested directories: sources and include files below src,
\* an include file in tb, a source and a nested include file in include.
NestedProject ==
    {<<n_p, n_src, n_sub, n_c_v>>, <<n_p, n_src, n_sub, n_d_vh>>,
     <<n_p, n_src, n_sub, n_e_svh>>, join(TbDir, n_t_vh),
     join(IncludeDir, n_m_v), <<n_p, n_include, n_x, n_h_vh>>}

CandidateFiles == ExampleProject \cup NestedProject

\* The project's files: the two projects above, and every project of at
\* most MaxFiles of their files.
Layouts ==
    {S \in SUBSET CandidateFiles : Cardinality(S) <= MaxFiles}
        \cup {ExampleProject, NestedProject}

\* sys.argv[1], sys.argv[2] (lines 118-119), 1-based here.
project_path == argv[2]
job_path == argv[3]

filelist_path == join(job_path, n_filelist)
compile_opts_path == join(job_path, n_compile_options)
metadata_path == join(job_path, n_metadata)

\* An optional value: Nothing (Python's None, an absent file) or Some(v).
Nothing == <<>>
Some(v) == <<v>>

NoOutputs ==
    [filelist |-> Nothing, filelist_ctime |-> Nothing,
     compile_options |-> Nothing, metadata |-> Nothing]

\* What a run remembers of the outputs it found: the two text files, and
\* whether there was a metadata file.
Snapshot(o) ==
    [o EXCEPT !.metadata = IF @ = Nothing THEN Nothing ELSE Some("present")]

\* The output files present in the job directory.
JobFiles ==
    IF Len(argv) < 3 THEN {}
    ELSE (IF out.filelist = Nothing THEN {} ELSE {filelist_path})
         \cup (IF out.compile_options = Nothing THEN {}
               ELSE {compile_opts_path})
         \cup (IF out.metadata = Nothing THEN {} ELSE {metadata_path})

AllFiles == files \cup JobFiles

\* os.path.exists
exists(path) == path \in dirs \/ path \in AllFiles

Listable(d) == d \in dirs /\ d \notin unreadable
FileNames(d) == {Basename(f) : f \in {g \in AllFiles : Parent(g) = d}}
SubDirs(d) == {x \in dirs : Len(x) > 0 /\ Parent(x) = d}

\* os.walk(top), top-down with the default onerror=None: every sequence of
\* (root, filenames) it can yield.  A directory's names and subdirectories
\* come in any order; a directory that cannot be listed yields nothing and
\* the error is dropped.
RECURSIVE walk(_), walk_each(_)
walk(top) ==
    IF ~Listable(top) THEN {<<>>}
    ELSE UNION {{<<[root |-> top, filenames |-> fp]>> \o rest :
                    rest \in walk_each(dp)} :
                 fp \in Perms(FileNames(top)), dp \in Perms(SubDirs(top))}
walk_each(ds) ==
    IF ds = <<>> THEN {<<>>}
    ELSE {a \o b : a \in walk(Head(ds)), b \in walk_each(Tail(ds))}

\* The directories a walk from top tries to list.
Visited(top) ==
    {d \in dirs : /\ IsPrefix(top, d)
                  /\ \A k \in Len(top)..(Len(d) - 1) : Listable(SubSeq(d, 1, k))}

\* A listing failed during the walk (and was dropped by os.walk).
ScandirFailed(top) == \E d \in Visited(top) : d \in unreadable

\* A faulty variant of verilog_extensions: filelists (.f) count as sources too.
verilog_extensions_f == <<<<".", "v">>, <<".", "s", "v">>, <<".", "f">>>>

verilog_extensions == <<<<".", "v">>, <<".", "s", "v">>>>
include_extensions == <<<<".", "v", "h">>, <<".", "s", "v", "h">>>>

HasExtension(filename, extensions) ==
    \E i \in 1..Len(extensions) : endswith(filename, extensions[i])

\* The (root, filename) pairs of a walk, in order.
RECURSIVE Entries(_)
Entries(w) ==
    IF w = <<>> THEN <<>>
    ELSE [i \in 1..Len(w[1].filenames) |->
             [root |-> w[1].root, filename |-> w[1].filenames[i]]]
         \o Entries(Tail(w))

\* scan_directory, given the walk w that os.walk(directory) yields.
scan_directory(directory, extensions, relative_to, w) ==
    IF ~exists(directory) THEN <<>>
    ELSE LET hits == SelectSeq(Entries(w),
                        LAMBDA e : HasExtension(e.filename, extensions))
         IN  [i \in 1..Len(hits) |->
                 LET file_path == join(hits[i].root, hits[i].filename)
                 IN  IF relative_to # Nothing
                     THEN relpath(file_path, relative_to[1])
                     ELSE <<"/">> \o Joined(file_path)]

(***************************************************************************)
(* Initial states: a project layout, an argument vector, no outputs yet.   *)
(***************************************************************************)
ArgVectors ==
    {SubSeq(<<Script, Project, job, <<n_x>>>>, 1, n) :
        job \in JobPlacements, n \in 1..4}

InitFS(denied) ==
    /\ argv \in ArgVectors
    /\ \E project_exists \in BOOLEAN :
         IF project_exists
         THEN /\ files \in Layouts
              /\ \E top \in SUBSET TopDirs :
                   dirs = {Root, Project} \cup top
                            \cup UNION {Ancestors(Parent(f)) : f \in files}
         ELSE files = {} /\ dirs = {Root}
    /\ unreadable \in {D \in SUBSET (dirs \ {Root}) : Cardinality(D) <= denied}
    /\ out = NoOutputs
    /\ pc = "main"
    /\ exit_status = Nothing
    /\ src_files = <<>>
    /\ tb_files = <<>>
    /\ include_files = <<>>
    /\ include_dirs = {}
    /\ run = 1
    /\ written = {}
    /\ faults = {}
    /\ began = [dirs |-> dirs, out |-> Snapshot(out), prev_exit |-> Nothing]

\* Every directory can be listed.
Init == InitFS(0)

\* Some directories deny listing.
InitIO == InitFS(MaxUnreadable)

(***************************************************************************)
(* main()                                                                  *)
(***************************************************************************)
Exit(status) ==
    /\ pc' = "exited"
    /\ exit_status' = Some(status)

locals == <<src_files, tb_files, include_files, include_dirs>>
fs == <<dirs, files, unreadable, out>>
history == <<run, written, faults, began>>

\* lines 112-116: the argument count.
CheckArgs ==
    /\ pc = "main"
    /\ IF Len(argv) # 3
       THEN Exit(1)
       ELSE pc' = "check_project" /\ UNCHANGED exit_status
    /\ UNCHANGED <<argv, fs, locals, history>>

\* A faulty variant of CheckProject: the job directory is created before the project
\* path is checked.
CheckProjectAfterMakedirs ==
    /\ pc = "check_project"
    /\ IF ~exists(project_path)
       THEN Exit(1) /\ dirs' = dirs \cup Ancestors(job_path)
       ELSE pc' = "make_job_dir" /\ UNCHANGED <<exit_status, dirs>>
    /\ UNCHANGED <<argv, files, unreadable, out, locals, history>>

\* lines 118-123: the project path must exist.
CheckProject ==
    /\ pc = "check_project"
    /\ IF ~exists(project_path)
       THEN Exit(1)
       ELSE pc' = "make_job_dir" /\ UNCHANGED exit_status
    /\ UNCHANGED <<argv, fs, locals, history>>

\* lines 125-126: os.makedirs outside the try block; an OSError is uncaught
\* and the interpreter exits with status 1.
MakeJobDir ==
    /\ pc = "make_job_dir"
    /\ IF exists(job_path)
       THEN /\ pc' = "scan_src"
            /\ UNCHANGED <<dirs, exit_status, faults>>
       ELSE \E ok \in BOOLEAN :
              IF ok
              THEN /\ dirs' = dirs \cup Ancestors(job_path)
                   /\ pc' = "scan_src"
                   /\ UNCHANGED <<exit_status, faults>>
              ELSE /\ Exit(1)
                   /\ faults' = faults \cup {"makedirs"}
                   /\ UNCHANGED dirs
    /\ UNCHANGED <<argv, files, unreadable, out, locals, run, written, began>>

(***************************************************************************)
(* generate_filelist(project_path, job_path)                               *)
(***************************************************************************)
src_dir == join(project_path, n_src)
tb_dir == join(project_path, n_tb)
include_dir == join(project_path, n_include)

\* An exception escaping generate_filelist is caught at line 131: exit 1.
Raise(fault) ==
    /\ Exit(1)
    /\ faults' = faults \cup {fault}

\* What a walk from top adds to the run's failures: nothing the program sees.
Dropped(top) == IF ScandirFailed(top) THEN {"scandir"} ELSE {}

\* Every result scan_directory(directory, extensions, job_path) can return,
\* one for each order os.walk may take.
scans(directory, extensions) ==
    {scan_directory(directory, extensions, Some(job_path), w) :
        w \in walk(directory)}

\* lines 39-45: src is scanned twice, for sources and for include files.
ScanSrc ==
    /\ pc = "scan_src"
    /\ IF exists(src_dir)
       THEN /\ \E s1 \in scans(src_dir, verilog_extensions),
                    s2 \in scans(src_dir, include_extensions) :
                 /\ src_files' = s1
                 /\ include_files' = include_files \o s2
            /\ faults' = faults \cup Dropped(src_dir)
       ELSE UNCHANGED <<src_files, include_files, faults>>
    /\ pc' = "scan_tb"
    /\ UNCHANGED <<argv, fs, exit_status, tb_files, include_dirs, run,
                   written, began>>

\* A faulty variant of ScanTb: a missing tb directory is an error.
ScanTbRequired ==
    /\ pc = "scan_tb"
    /\ IF exists(tb_dir)
       THEN /\ \E s1 \in scans(tb_dir, verilog_extensions) : tb_files' = s1
            /\ pc' = "scan_include"
            /\ UNCHANGED exit_status
       ELSE Exit(1) /\ UNCHANGED tb_files
    /\ UNCHANGED <<argv, fs, src_files, include_files, include_dirs, history>>

\* lines 47-50: tb is scanned for sources only.
ScanTb ==
    /\ pc = "scan_tb"
    /\ IF exists(tb_dir)
       THEN /\ \E s1 \in scans(tb_dir, verilog_extensions) : tb_files' = s1
            /\ faults' = faults \cup Dropped(tb_dir)
       ELSE UNCHANGED <<tb_files, faults>>
    /\ pc' = "scan_include"
    /\ UNCHANGED <<argv, fs, exit_status, src_files, include_files,
                   include_dirs, run, written, began>>

\* A faulty variant of ScanInclude: the include directory's files are put before the
\* include files of src.
ScanIncludeFirst ==
    /\ pc = "scan_include"
    /\ IF exists(include_dir)
       THEN \E s1 \in scans(include_dir, include_extensions) :
                include_files' = s1 \o include_files
       ELSE UNCHANGED include_files
    /\ pc' = "write_filelist"
    /\ UNCHANGED <<argv, fs, exit_status, src_files, tb_files, include_dirs,
                   history>>

\* lines 52-56: include is scanned for include files only.
ScanInclude ==
    /\ pc = "scan_include"
    /\ IF exists(include_dir)
       THEN /\ \E s1 \in scans(include_dir, include_extensions) :
                 include_files' = include_files \o s1
            /\ faults' = faults \cup Dropped(include_dir)
       ELSE UNCHANGED <<include_files, faults>>
    /\ pc' = "write_filelist"
    /\ UNCHANGED <<argv, fs, exit_status, src_files, tb_files, include_dirs,
                   run, written, began>>

\* with open(path, 'w') as f: f.write(...) for each line.  The open may fail
\* (the file is left as it was) or a write may fail (the file is left
\* truncated, holding some of the lines but not all).
WriteResults(old, content) ==
    {[file |-> Some(content), ok |-> TRUE, opened |-> TRUE],
     [file |-> old, ok |-> FALSE, opened |-> FALSE]}
    \cup {[file |-> Some(SubSeq(content, 1, k)), ok |-> FALSE, opened |-> TRUE] :
            k \in 0..(Len(content) - 1)}

\* lines 61-68: the sources sorted, then the testbench files sorted.
filelist_lines(src, tb) == sorted(src) \o sorted(tb)

WriteFilelist ==
    /\ pc = "write_filelist"
    /\ \E r \in WriteResults(out.filelist, filelist_lines(src_files, tb_files)) :
         /\ out' = [out EXCEPT !.filelist = r.file,
                               !.filelist_ctime =
                                   IF r.opened THEN Some(run) ELSE @]
         /\ IF r.ok
            THEN /\ pc' = "include_dirs"
                 /\ written' = written \cup {"filelist"}
                 /\ UNCHANGED <<exit_status, faults>>
            ELSE Raise("write") /\ UNCHANGED written
    /\ UNCHANGED <<argv, dirs, files, unreadable, locals, run, began>>

\* lines 76-78: the directories of a walk that hold an include file.
DirsWithIncludes(w) ==
    {w[i].root : i \in {j \in 1..Len(w) :
        \E k \in 1..Len(w[j].filenames) :
            HasExtension(w[j].filenames[k], include_extensions)}}

\* A faulty variant of IncludeDirSet: src is added only when it holds an include file
\* itself (line 75 left out).
IncludeDirSetNoRoot(w) ==
    (IF exists(src_dir)
     THEN {relpath(root, job_path) : root \in DirsWithIncludes(w)}
     ELSE {})
    \cup (IF exists(include_dir) THEN {relpath(include_dir, job_path)} ELSE {})

\* lines 70-82: the include directories, relative to the job directory.
IncludeDirSet(w) ==
    (IF exists(src_dir)
     THEN {relpath(src_dir, job_path)}
          \cup {relpath(root, job_path) : root \in DirsWithIncludes(w)}
     ELSE {})
    \cup (IF exists(include_dir) THEN {relpath(include_dir, job_path)} ELSE {})

\* A faulty variant of ComputeIncludeDirs: the metadata is written next, before the
\* compile options.
ComputeIncludeDirsThenMetadata ==
    /\ pc = "include_dirs"
    /\ \E w \in walk(src_dir) : include_dirs' = IncludeDirSet(w)
    /\ pc' = "write_metadata"
    /\ UNCHANGED <<argv, fs, exit_status, src_files, tb_files, include_files,
                   history>>

ComputeIncludeDirs ==
    /\ pc = "include_dirs"
    /\ \E w \in walk(src_dir) : include_dirs' = IncludeDirSet(w)
    /\ faults' = faults \cup (IF exists(src_dir) THEN Dropped(src_dir) ELSE {})
    /\ pc' = "write_compile_options"
    /\ UNCHANGED <<argv, fs, exit_status, src_files, tb_files, include_files,
                   run, written, began>>

\* sorted() of a set: of its elements in whatever order the set yields them.
sorted_set(S) == sorted(CHOOSE p \in Perms(S) : TRUE)

\* lines 86-88: one "+incdir+<dir>" line per directory, sorted.
compile_options_lines(inc_dirs) ==
    LET ds == sorted_set(inc_dirs)
    IN  [i \in 1..Len(ds) |-> <<"+", "i", "n", "c", "d", "i", "r", "+">> \o ds[i]]

WriteCompileOptions ==
    /\ pc = "write_compile_options"
    /\ \E r \in WriteResults(out.compile_options,
                             compile_options_lines(include_dirs)) :
         /\ out' = [out EXCEPT !.compile_options = r.file]
         /\ IF r.ok
            THEN /\ pc' = "write_metadata"
                 /\ written' = written \cup {"compile_options"}
                 /\ UNCHANGED <<exit_status, faults>>
            ELSE Raise("write") /\ UNCHANGED written
    /\ UNCHANGED <<argv, dirs, files, unreadable, locals, run, began>>

\* A faulty variant of metadata: the include files are counted in total_files.
metadata_counting_includes(dir_list) ==
    [project_path |-> project_path,
     job_path |-> job_path,
     src_files |-> src_files,
     tb_files |-> tb_files,
     include_files |-> include_files,
     include_dirs |-> dir_list,
     total_files |-> Len(src_files) + Len(tb_files) + Len(include_files),
     generated_at |-> IF exists(filelist_path) THEN out.filelist_ctime
                      ELSE Nothing]

\* lines 91-100: the metadata; list(include_dirs) is in the set's own order.
metadata(dir_list) ==
    [project_path |-> project_path,
     job_path |-> job_path,
     src_files |-> src_files,
     tb_files |-> tb_files,
     include_files |-> include_files,
     include_dirs |-> dir_list,
     total_files |-> Len(src_files) + Len(tb_files),
     generated_at |-> IF exists(filelist_path) THEN out.filelist_ctime
                      ELSE Nothing]

\* lines 102-104: json.dump writes the one record; a failed dump leaves the
\* file without it.
WriteMetadata ==
    /\ pc = "write_metadata"
    /\ \E dir_list \in Perms(include_dirs) :
         \E r \in WriteResults(out.metadata, <<metadata(dir_list)>>) :
            /\ out' = [out EXCEPT !.metadata = r.file]
            /\ IF r.ok
               THEN /\ pc' = "report"
                    /\ written' = written \cup {"metadata"}
                    /\ UNCHANGED <<exit_status, faults>>
               ELSE Raise("write") /\ UNCHANGED written
    /\ UNCHANGED <<argv, dirs, files, unreadable, locals, run, began>>

\* lines 106-109 and 130: the summary is printed and main returns: exit 0.
Report ==
    /\ pc = "report"
    /\ Exit(0)
    /\ UNCHANGED <<argv, fs, locals, history>>

\* The generator is invoked again with the same arguments.
Rerun ==
    /\ pc = "exited"
    /\ run < MaxRuns
    /\ pc' = "main"
    /\ exit_status' = Nothing
    /\ src_files' = <<>>
    /\ tb_files' = <<>>
    /\ include_files' = <<>>
    /\ include_dirs' = {}
    /\ run' = run + 1
    /\ written' = {}
    /\ faults' = {}
    /\ began' = [dirs |-> dirs, out |-> Snapshot(out),
                 prev_exit |-> exit_status]
    /\ UNCHANGED <<argv, fs>>

Next ==
    \/ CheckArgs
    \/ CheckProject
    \/ MakeJobDir
    \/ ScanSrc
    \/ ScanTb
    \/ ScanInclude
    \/ WriteFilelist
    \/ ComputeIncludeDirs
    \/ WriteCompileOptions
    \/ WriteMetadata
    \/ Report
    \/ Rerun

Spec == Init /\ [][Next]_vars

SpecIO == InitIO /\ [][Next]_vars

(***************************************************************************)
(* Vocabulary of the properties, stated on the file system and the output  *)
(* files, apart from the operators of the program above.                   *)
(***************************************************************************)
AllOutputs == {"filelist", "compile_options", "metadata"}

\* generate_filelist returned and main exited with status 0.
Succeeded == pc = "exited" /\ exit_status = Some(0)

\* Two arguments and an existing project.
ValidInvocation == Len(argv) = 3 /\ project_path \in began.dirs

\* The name ends in .v or .sv / in .vh or .svh, character by character.
IsVerilogName(name) ==
    LET n == Len(name)
    IN  \/ n >= 2 /\ name[n - 1] = "." /\ name[n] = "v"
        \/ n >= 3 /\ name[n - 2] = "." /\ name[n - 1] = "s" /\ name[n] = "v"

IsIncludeName(name) ==
    LET n == Len(name)
    IN  \/ n >= 3 /\ name[n - 2] = "." /\ name[n - 1] = "v" /\ name[n] = "h"
        \/ /\ n >= 4
           /\ name[n - 3] = "." /\ name[n - 2] = "s"
           /\ name[n - 1] = "v" /\ name[n] = "h"

\* The files anywhere below directory d.
FilesUnder(d) == {f \in AllFiles : IsPrefix(d, Parent(f))}

\* The path of f as the outputs name it.
Rel(f) == relpath(f, job_path)

Ascending(s) == \A i, j \in 1..Len(s) : i < j => ~StrLess(s[j], s[i])
StrictlyAscending(s) == \A i, j \in 1..Len(s) : i < j => StrLess(s[i], s[j])

Count(s, x) == Cardinality({i \in 1..Len(s) : s[i] = x})
IsPermutation(s, t) ==
    /\ Len(s) = Len(t)
    /\ \A x \in Range(s) \cup Range(t) : Count(s, x) = Count(t, x)

\* s lists every member of S exactly once, in ascending order.
ListsSorted(s, S) ==
    /\ Range(s) = S
    /\ Len(s) = Cardinality(S)
    /\ Ascending(s)

FilelistLines == out.filelist[1]
CompileLines == out.compile_options[1]
Metadata == out.metadata[1][1]
MetadataComplete == out.metadata # Nothing /\ Len(out.metadata[1]) = 1

SrcSources == {Rel(f) : f \in {g \in FilesUnder(SrcDir) : IsVerilogName(Basename(g))}}
TbSources == {Rel(f) : f \in {g \in FilesUnder(TbDir) : IsVerilogName(Basename(g))}}
SrcIncludes == {Rel(f) : f \in {g \in FilesUnder(SrcDir) : IsIncludeName(Basename(g))}}
DirIncludes ==
    {Rel(f) : f \in {g \in FilesUnder(IncludeDir) : IsIncludeName(Basename(g))}}

IncdirPrefix == <<"+", "i", "n", "c", "d", "i", "r", "+">>

\* C1: after a successful run filelist.f holds one line per .v/.sv file
\* below src, sorted, then one line per .v/.sv file below tb, sorted,
\* whatever the order of the walks; and filelist.f never names a .vh/.svh
\* file or a file below include.
C1_FilelistContents ==
    /\ Succeeded =>
         LET n == Cardinality(SrcSources)
         IN  /\ Len(FilelistLines) = n + Cardinality(TbSources)
             /\ ListsSorted(SubSeq(FilelistLines, 1, n), SrcSources)
             /\ ListsSorted(SubSeq(FilelistLines, n + 1, Len(FilelistLines)),
                            TbSources)
    /\ (Len(argv) = 3 /\ out.filelist # Nothing) =>
         \A f \in AllFiles :
            (IsIncludeName(Basename(f)) \/ IsPrefix(IncludeDir, Parent(f)))
                => Rel(f) \notin Range(FilelistLines)

\* The example project was scanned with the walk returning b.sv before a.v.
C1_Witness ==
    /\ Succeeded
    /\ files = ExampleProject
    /\ StrLess(Metadata.src_files[2], Metadata.src_files[1])
    /\ Len(FilelistLines) = 3

\* The include-directory set, read off the file system: src if it exists,
\* every directory at or below src that directly holds a .vh/.svh file, and
\* include if it exists.
ExpectedIncludeDirs ==
    (IF SrcDir \in dirs THEN {Rel(SrcDir)} ELSE {})
    \cup {Rel(d) : d \in {x \in dirs :
             /\ IsPrefix(SrcDir, x)
             /\ \E f \in AllFiles : Parent(f) = x /\ IsIncludeName(Basename(f))}}
    \cup (IF IncludeDir \in dirs THEN {Rel(IncludeDir)} ELSE {})

LineDir(line) == SubSeq(line, Len(IncdirPrefix) + 1, Len(line))
LineDirs(lines) == [i \in 1..Len(lines) |-> LineDir(lines[i])]

\* C2: after a successful run compile_options.txt holds exactly one line
\* "+incdir+<dir>" per member of the include-directory set, sorted by
\* directory and without duplicates; tb, its subdirectories and the
\* subdirectories of include are never members.
C2_CompileOptions ==
    Succeeded =>
        /\ \A i \in 1..Len(CompileLines) :
              CompileLines[i] = IncdirPrefix \o LineDir(CompileLines[i])
        /\ Range(LineDirs(CompileLines)) = ExpectedIncludeDirs
        /\ Len(CompileLines) = Cardinality(ExpectedIncludeDirs)
        /\ StrictlyAscending(LineDirs(CompileLines))
        /\ \A d \in dirs :
              (IsPrefix(TbDir, d) \/ (IsPrefix(IncludeDir, d) /\ d # IncludeDir))
                  => Rel(d) \notin Range(LineDirs(CompileLines))

\* The nested project: two include files share src/u, tb and include/x hold
\* include files too, and the options are src, src/u and include.
C2_Witness ==
    /\ Succeeded
    /\ files = NestedProject
    /\ Len(CompileLines) = 3

\* C3: in every metadata record written, total_files is
\* len(src_files) + len(tb_files), and it is the number of .v/.sv files
\* below src and tb: the include files do not count.
C3_TotalFiles ==
    (Len(argv) = 3 /\ MetadataComplete) =>
        /\ Metadata.total_files
             = Len(Metadata.src_files) + Len(Metadata.tb_files)
        /\ Metadata.total_files
             = Cardinality(SrcSources) + Cardinality(TbSources)

\* A record with sources and include files.
C3_Witness ==
    /\ Len(argv) = 3
    /\ MetadataComplete
    /\ Metadata.total_files = 3
    /\ Len(Metadata.include_files) = 2

\* C4: when the generator has succeeded and is run again with the same
\* arguments on the unchanged project, the second run leaves filelist.f and
\* compile_options.txt with the contents the first run gave them, wherever
\* the job directory is and whatever the order of the walks.
C4_Idempotent ==
    (Succeeded /\ began.prev_exit = Some(0)) =>
        /\ out.filelist = began.out.filelist
        /\ out.compile_options = began.out.compile_options

\* The second run, with the job directory inside the project (its outputs
\* of the first run lie in src) and the walk returning b.sv before a.v.
C4_Witness ==
    /\ Succeeded
    /\ began.prev_exit = Some(0)
    /\ job_path = SrcDir
    /\ Len(src_files) = 2
    /\ StrLess(src_files[2], src_files[1])

\* C5: with the project present, no absence among src, tb and include is an
\* error: a run that meets no I/O failure exits 0 with all three outputs
\* written, an absent directory contributes nothing (with tb absent, tb_files
\* is empty and filelist.f holds the src entries only), and scan_directory
\* of a directory that does not exist returns the empty sequence.
C5_AbsentDirectories ==
    /\ (pc = "exited" /\ ValidInvocation /\ faults = {}) =>
          /\ exit_status = Some(0)
          /\ written = AllOutputs
          /\ TbDir \notin dirs =>
                /\ Metadata.tb_files = <<>>
                /\ IsPermutation(FilelistLines, Metadata.src_files)
          /\ SrcDir \notin dirs =>
                /\ Metadata.src_files = <<>>
                /\ IsPermutation(FilelistLines, Metadata.tb_files)
                /\ IsPermutation(Metadata.include_files,
                                 sorted_set(DirIncludes))
          /\ IncludeDir \notin dirs =>
                /\ IsPermutation(Metadata.include_files,
                                 sorted_set(SrcIncludes))
                /\ Rel(IncludeDir) \notin Range(LineDirs(CompileLines))
    /\ Len(argv) = 3 =>
          \A d \in TopDirs \ dirs : \A w \in walk(d) :
              /\ scan_directory(d, verilog_extensions, Some(job_path), w) = <<>>
              /\ scan_directory(d, include_extensions, Some(job_path), w) = <<>>

\* A run on a project with sources in src and neither tb nor include.
C5_Witness ==
    /\ Succeeded
    /\ TbDir \notin dirs
    /\ IncludeDir \notin dirs
    /\ Len(FilelistLines) > 0

\* The invocation is refused: wrong argument count, or no such project.
InvalidInvocation ==
    IF Len(argv) # 3 THEN TRUE ELSE project_path \notin began.dirs

\* C6: an invalid invocation (not exactly two arguments, or a project path
\* that does not exist) changes nothing in the file system at any point, in
\* particular creates neither the job directory nor an output file, and
\* ends with exit status 1.
C6_InvalidInvocation ==
    InvalidInvocation =>
        /\ dirs = began.dirs
        /\ Snapshot(out) = began.out
        /\ written = {}
        /\ pc \in {"main", "check_project", "exited"}
        /\ pc = "exited" => exit_status = Some(1)

\* Two arguments, the project and the job directory both missing.
C6_Witness ==
    /\ pc = "exited"
    /\ Len(argv) = 3
    /\ project_path \notin dirs
    /\ job_path \notin dirs
    /\ exit_status = Some(1)

DotDot == <<".", ".">>

\* The example project's filelist, written out for each job directory.
ExampleFilelist(job) ==
    IF job = Project
    THEN <<Joined(<<n_src, n_a_v>>), Joined(<<n_src, n_b_sv>>),
           Joined(<<n_tb, n_top_tb_sv>>)>>
    ELSE IF job = SrcDir
    THEN <<n_a_v, n_b_sv, Joined(<<DotDot, n_tb, n_top_tb_sv>>)>>
    ELSE <<Joined(<<DotDot, n_p, n_src, n_a_v>>),
           Joined(<<DotDot, n_p, n_src, n_b_sv>>),
           Joined(<<DotDot, n_p, n_tb, n_top_tb_sv>>)>>

\* C7 as stated: for the example project filelist.f is src/a.v, src/b.sv,
\* tb/top_tb.sv, whatever the job directory.
C7_AsStated ==
    (Succeeded /\ files = ExampleProject) =>
        FilelistLines = ExampleFilelist(Project)

\* C7, amended: for the example project filelist.f holds exactly three
\* entries, a.v then b.sv of src, then top_tb.sv of tb, each as its path
\* relative to the job directory (src/a.v, src/b.sv, tb/top_tb.sv when the
\* job directory is the project directory; ../p/src/a.v, ... from a job
\* directory beside the project p; a.v, b.sv, ../tb/top_tb.sv from src);
\* pkg.svh and defs.vh are not among them.
C7_ExampleRelativeToJob ==
    (Succeeded /\ files = ExampleProject) =>
        /\ FilelistLines = ExampleFilelist(job_path)
        /\ \A i \in 1..Len(FilelistLines) :
              /\ ~endswith(FilelistLines[i], n_pkg_svh)
              /\ ~endswith(FilelistLines[i], n_defs_vh)

\* The example project with the job directory beside the project.
C7_Witness ==
    /\ Succeeded
    /\ files = ExampleProject
    /\ job_path = <<n_job>>
    /\ FilelistLines[1] = Joined(<<DotDot, n_p, n_src, n_a_v>>)

\* C8 as stated: a valid invocation exits 0 exactly when all three outputs
\* were written in this run, and an I/O failure at any step (creating the
\* job directory, scanning, writing) ends the run with a non-zero status.
C8_ExitStatus ==
    (pc = "exited" /\ ValidInvocation) =>
        /\ exit_status = Some(0) <=> written = AllOutputs
        /\ faults # {} => exit_status # Some(0)

OutputsPresent ==
    {n \in AllOutputs :
        \/ n = "filelist" /\ out.filelist # Nothing
        \/ n = "compile_options" /\ out.compile_options # Nothing
        \/ n = "metadata" /\ out.metadata # Nothing}

\* C9: the outputs are written in the order filelist.f, compile_options.txt,
\* project_metadata.json, each after the one before is complete; so, the job
\* directory having started empty, project_metadata.json exists only if
\* compile_options.txt does, and compile_options.txt only if filelist.f does.
C9_WriteOrder ==
    /\ "metadata" \in OutputsPresent => "compile_options" \in OutputsPresent
    /\ "compile_options" \in OutputsPresent => "filelist" \in OutputsPresent
    /\ "metadata" \in written => "compile_options" \in written
    /\ "compile_options" \in written => "filelist" \in written
    /\ pc = "write_compile_options" => written = {"filelist"}
    /\ pc = "write_metadata" => written = {"filelist", "compile_options"}
    /\ pc = "write_filelist" => written = {}

\* A first run that failed after filelist.f was written: filelist.f is there
\* and project_metadata.json is not.
C9_Witness ==
    /\ pc = "exited"
    /\ run = 1
    /\ "write" \in faults
    /\ "filelist" \in written
    /\ OutputsPresent = {"filelist"}

\* C10: after a successful run the three outputs describe one scan: the
\* lines of filelist.f are a permutation of the metadata's src_files followed
\* by tb_files (total_files lines); the directories of compile_options.txt
\* are the entries of include_dirs, which has no duplicates; include_files
\* is the include files of src followed by those of include, and none of
\* them is in src_files or tb_files.
C10_OutputsAgree ==
    Succeeded =>
        LET m == Metadata
            n == Cardinality(SrcIncludes)
        IN  /\ IsPermutation(FilelistLines, m.src_files \o m.tb_files)
            /\ Len(FilelistLines) = m.total_files
            /\ Range(LineDirs(CompileLines)) = Range(m.include_dirs)
            /\ Len(m.include_dirs) = Cardinality(Range(m.include_dirs))
            /\ Len(m.include_files) = n + Cardinality(DirIncludes)
            /\ Range(SubSeq(m.include_files, 1, n)) = SrcIncludes
            /\ Range(SubSeq(m.include_files, n + 1, Len(m.include_files)))
                 = DirIncludes
            /\ Range(m.include_files)
                 \cap (Range(m.src_files) \cup Range(m.tb_files)) = {}

\* The example project: pkg.svh of src, then defs.vh of include.
C10_Witness ==
    /\ Succeeded
    /\ files = ExampleProject
    /\ Len(Metadata.include_files) = 2
    /\ Len(Metadata.include_dirs) = 2

====
